---- MODULE Spec2Model ----
(***************************************************************************)
(* The video generation pipeline of anonthedev/ai-sdk-assignment.          *)
(*                                                                         *)
(* Two variants of one program are modelled together, told apart by the    *)
(* variable `variant`:                                                     *)
(*   "script"  src/backend/script.ts   (command line, ffmpeg concatenation)*)
(*   "server"  src/unnamed/part_000    (Express POST /api/generate-video)  *)
(*                                                                         *)
(* One behaviour is the handling of one prompt: main() of the script, or   *)
(* one POST request of the server.  generateVideo is an async function;    *)
(* each action below is one of its continuations, the code that runs from  *)
(* the settling of one awaited call to the start of the next.  The awaited *)
(* calls (Gemini, Imagen, Veo, fetch, fs, ffmpeg) and the agent framework  *)
(* (run, the tool runner) are the environment: their results are chosen    *)
(* with \E from the results the call sites have to handle.                 *)
(*                                                                         *)
(* Requests of the server share no program state (every variable of        *)
(* generateVideo is a local of one invocation), so one request stands for  *)
(* each of them.  req.body is an object, as express.json() provides.       *)
(* The variables marked "history" record what has happened for the         *)
(* properties to speak about; no action reads them.                        *)
(***************************************************************************)
EXTENDS Integers, Sequences, FiniteSets

\* ------------------------------------------------------------------ bounds

\* Longest narration text the language model returns.
MaxTextLen == 2
\* Most clips one video operation returns.
MaxVideos == 2
\* Cap of the counters (pollCount, calls started per API): they saturate here,
\* so that a poll loop that never ends stays a finite cycle of the model.
MaxCount == 2
\* Latest value of the millisecond clock read by Date.now().
MaxClock == 1
\* Most times the agent framework invokes a generate_*_video tool in one run.
MaxToolCalls == 1

\* ------------------------------------------------------------------ values

Variants == {"script", "server"}
VideoStyle == {"hype", "ad", "cinematic"}

\* argv[2] of the script, req.body.prompt of the server: missing, empty, given.
Prompts == {"undefined", "", "my video prompt"}

\* Characters of a narration text: an asterisk, whitespace, any other character.
Chars == {"*", " ", "a"}

RECURSIVE TextsOfLen(_)
TextsOfLen(n) ==
    IF n = 0 THEN {<<>>}
    ELSE {Append(s, c) : s \in TextsOfLen(n - 1), c \in Chars}

Texts == UNION {TextsOfLen(n) : n \in 0..MaxTextLen}

\* narrationRes.text: undefined, or a string.
NarrationResults == {[defined |-> FALSE, text |-> <<>>]}
                    \cup {[defined |-> TRUE, text |-> t] : t \in Texts}

\* generatedVideos[k].video.uri is present (TRUE) or missing (FALSE).
ClipLists == UNION {[1..n -> BOOLEAN] : n \in 0..MaxVideos}

\* The operation object of the video API.  Until it is done it carries no
\* response; once done, response.generatedVideos is undefined or a list.
Operations ==
    {[done |-> FALSE, hasVideos |-> FALSE, videos |-> <<>>]}
    \cup {[done |-> TRUE, hasVideos |-> FALSE, videos |-> <<>>]}
    \cup {[done |-> TRUE, hasVideos |-> TRUE, videos |-> v] : v \in ClipLists}

NoOperation == [done |-> FALSE, hasVideos |-> FALSE, videos |-> <<>>]

\* The SDK calls generateVideo awaits, apart from the downloads.
Apis == {"generateContent", "generateImages", "generateVideos",
         "getVideosOperation", "ffmpeg"}

\* How one downloadVideo call ends: it returns the path ("ok"); it throws before
\* createWriteStream, fetch having rejected or answered not ok ("notOk"); or it
\* throws after it, the body missing or a read rejecting ("readFailed").
DownloadOutcomes == {"ok", "notOk", "readFailed"}

Min(a, b) == IF a < b THEN a ELSE b

\* ------------------------------------------------------------ pure helpers

IsWhitespace(c) == c = " "

\* String.prototype.replace(/\*/g, "")
StripAsterisks(s) == SelectSeq(s, LAMBDA c : c # "*")

RECURSIVE TrimStart(_)
TrimStart(s) ==
    IF s # <<>> /\ IsWhitespace(Head(s)) THEN TrimStart(Tail(s)) ELSE s

RECURSIVE TrimEnd(_)
TrimEnd(s) ==
    IF s # <<>> /\ IsWhitespace(s[Len(s)])
    THEN TrimEnd(SubSeq(s, 1, Len(s) - 1))
    ELSE s

\* String.prototype.trim()
Trim(s) == TrimEnd(TrimStart(s))

\* A mutant of CleanNarration: the text is not trimmed.
CleanNarrationUntrimmed(res) ==
    IF res.defined THEN StripAsterisks(res.text) ELSE <<>>

\* narrationRes.text?.replace(/\*/g, "").trim(); undefined is falsy like "".
CleanNarration(res) ==
    IF res.defined THEN Trim(StripAsterisks(res.text)) ELSE <<>>

\* path.join(DIR, `${style}_image_${Date.now()}.png`) and its siblings: a path is
\* the record of the parts its name is built from.
ImagePathOf(st, ts) == [kind |-> "image", style |-> st, ts |-> ts, idx |-> 0]
VideoPathOf(st, ts, k) == [kind |-> "video", style |-> st, ts |-> ts, idx |-> k]
ListPathOf(st) == [kind |-> "concat_list", style |-> st, ts |-> 0, idx |-> 0]
FinalPathOf(st, ts) == [kind |-> "final", style |-> st, ts |-> ts, idx |-> 0]
NoPath == [kind |-> "none", style |-> "none", ts |-> 0, idx |-> 0]

\* filePaths.map((p) => `file '${p}'`): one line per path.
ConcatLine(p) == [directive |-> "file", path |-> p]

\* A mutant of ListContentOf: the lines are written last clip first.
ListContentReversed(paths) ==
    [k \in 1..Len(paths) |-> ConcatLine(paths[Len(paths) + 1 - k])]

ListContentOf(paths) == [k \in 1..Len(paths) |-> ConcatLine(paths[k])]

\* Values of result.finalOutput and of a tool's result.
Undefined == [type |-> "undefined"]
TextOutput(t) == [type |-> "text", text |-> t]
ServerResult(paths) == [type |-> "filePaths", filePaths |-> paths]
ScriptResult(v, img) == [type |-> "video", videoPath |-> v, imagePath |-> img]

\* JavaScript truthiness of an output: undefined and "" are falsy.
Truthy(v) == ~(v.type = "undefined" \/ (v.type = "text" /\ v.text = ""))

\* ------------------------------------------------------------------- state

VARIABLES
    variant,        \* which program runs: "script" or "server"
    prompt,         \* process.argv[2] / req.body.prompt
    hpc,            \* position of main / of the POST handler
    agentCreated,   \* createTriageAgent() has been called
    responses,      \* server: the responses sent, in order
    exitCode,       \* script: -1 while the process runs, then its exit code
    runResult,      \* history: how run(TriageAgent, prompt) settled
    toolCalls,      \* times the framework has invoked a generate_*_video tool
    stepFailed,     \* history: some step of handling this prompt has failed
    dirExists,      \* TEMP_DIR / OUTPUT_DIR exists
    now,            \* the clock behind Date.now()
    pc,             \* position of generateVideo: the call it awaits
    style,          \* generateVideo's style argument
    narrationRes,   \* the generateContent result, kept where it was rejected
    narration,      \* the cleaned narration text
    image,          \* what generateImages gave: "none" before it returns
    imagePath,      \* script: path of the saved image
    op,             \* the video operation
    pollCount,      \* the poll counter (saturating at MaxCount)
    i,              \* the download loop's clip number (1-based)
    filePaths,      \* paths of the clips downloaded so far
    attempts,       \* history: the downloadVideo calls of this invocation
    listContent,    \* script: content written to the concat list file
    finalVideoPath, \* script: the final video path
    started,        \* history: calls started per API in this invocation
    completed,      \* history: APIs that have returned successfully
    written,        \* history: files created by this invocation
    error,          \* message of the Error generateVideo threw
    failure,        \* history: the stage at which generateVideo threw
    toolResult      \* what the last invocation of generateVideo returned

handlerVars == <<variant, prompt, hpc, agentCreated, responses, exitCode,
                 runResult>>

localVars == <<pc, style, narrationRes, narration, image, imagePath, op, pollCount, i,
               filePaths, attempts, listContent, finalVideoPath, started,
               completed, written, error, failure, toolResult>>

vars == <<variant, prompt, hpc, agentCreated, responses, exitCode, runResult,
          image, toolCalls,
          stepFailed, dirExists, now, pc, style, narrationRes, narration,
          imagePath, op, pollCount, i, filePaths, attempts, listContent,
          finalVideoPath, started, completed, written, error, failure,
          toolResult>>

NoNarrationRes == [defined |-> FALSE, text |-> <<>>]
NoRun == [kind |-> "none", message |-> "", output |-> Undefined]

\* generateVideo's locals before it has run.
FreshLocals ==
    /\ style = "none"
    /\ narrationRes = NoNarrationRes
    /\ narration = <<>>
    /\ image = "none"
    /\ imagePath = NoPath
    /\ op = NoOperation
    /\ pollCount = 0
    /\ i = 0
    /\ filePaths = <<>>
    /\ attempts = <<>>
    /\ listContent = <<>>
    /\ finalVideoPath = NoPath
    /\ started = [a \in Apis |-> 0]
    /\ completed = {}
    /\ written = {}
    /\ error = ""
    /\ failure = "none"
    /\ toolResult = Undefined

Init ==
    /\ variant \in Variants
    /\ prompt \in Prompts
    /\ hpc = "start"
    /\ agentCreated = FALSE
    /\ responses = <<>>
    /\ exitCode = -1
    /\ runResult = NoRun
    /\ toolCalls = 0
    /\ stepFailed = FALSE
    /\ dirExists \in BOOLEAN
    /\ now = 0
    /\ pc = "idle"
    /\ FreshLocals

\* ----------------------------------------------------- handler and framework

\* A mutant of PromptMissing: only a missing prompt is rejected.
PromptMissingUndefinedOnly(p) == p = "undefined"

\* !prompt: undefined and "" are falsy.
PromptMissing(p) == p = "undefined" \/ p = ""

ErrorBody(msg) == [type |-> "error", error |-> msg]
Response(status, body) == [status |-> status, body |-> body]

\* app.post("/api/generate-video") up to its first await: the prompt check,
\* createTriageAgent() and the start of run(TriageAgent, prompt).
PostGenerateVideo ==
    /\ variant = "server"
    /\ hpc = "start"
    /\ IF PromptMissing(prompt)
       THEN /\ responses' = Append(responses, Response(400, ErrorBody("Prompt is required")))
            /\ hpc' = "done"
            /\ UNCHANGED agentCreated
       ELSE /\ agentCreated' = TRUE
            /\ hpc' = "run"
            /\ UNCHANGED responses
    /\ UNCHANGED <<variant, prompt, exitCode, runResult, toolCalls, stepFailed,
                   dirExists, now>>
    /\ UNCHANGED localVars

\* main() up to its first await: the argv check (process.exit(1)),
\* createTriageAgent() and the start of run(TriageAgent, prompt).
Main ==
    /\ variant = "script"
    /\ hpc = "start"
    /\ IF PromptMissing(prompt)
       THEN /\ exitCode' = 1
            /\ hpc' = "done"
            /\ UNCHANGED agentCreated
       ELSE /\ agentCreated' = TRUE
            /\ hpc' = "run"
            /\ UNCHANGED exitCode
    /\ UNCHANGED <<variant, prompt, responses, runResult, toolCalls, stepFailed,
                   dirExists, now>>
    /\ UNCHANGED localVars

\* How `await run(TriageAgent, prompt)` and `await result.finalOutput` can end.
\* The framework decides; the call site handles a rejection, a falsy output, a
\* string and an object.  After a tool threw the framework may reject with the
\* tool's error or carry on; after a tool returned, the output may be its result.
RunOutcomes ==
    {[kind |-> "throw", message |-> "Agent run failed", output |-> Undefined]}
    \cup (IF pc = "thrown"
          THEN {[kind |-> "throw", message |-> error, output |-> Undefined]}
          ELSE {})
    \cup {[kind |-> "output", message |-> "", output |-> v] :
            v \in {Undefined, TextOutput(""), TextOutput("some text")}}
    \cup (IF pc = "returned"
          THEN {[kind |-> "output", message |-> "", output |-> toolResult]}
          ELSE {})

NoInvocationRunning == pc \in {"idle", "returned", "thrown"}

\* What the catch block of the handler receives, "" when nothing is thrown:
\* the rejection of run, or the Error thrown for a falsy output.
CaughtError(r) ==
    IF r.kind = "throw" THEN r.message
    ELSE IF ~Truthy(r.output) THEN "No output received from agent"
    ELSE ""

\* A mutant of ServerReply: the catch block logs the error and answers 200.
ServerReplyErrorAs200(r) ==
    IF CaughtError(r) # ""
    THEN Response(200, ErrorBody(CaughtError(r)))
    ELSE Response(200, r.output)

\* The response the handler sends once run has settled: res.json(output), or
\* res.status(500).json({ error }) from the catch block.
ServerReply(r) ==
    IF CaughtError(r) # ""
    THEN Response(500, ErrorBody(CaughtError(r)))
    ELSE Response(200, r.output)

\* The rest of the POST handler, from the settling of run.
PostGenerateVideoAfterRun ==
    /\ variant = "server"
    /\ hpc = "run"
    /\ NoInvocationRunning
    /\ \E r \in RunOutcomes :
        /\ runResult' = r
        /\ responses' = Append(responses, ServerReply(r))
        /\ stepFailed' = (stepFailed \/ CaughtError(r) # "")
    /\ hpc' = "done"
    /\ UNCHANGED <<variant, prompt, agentCreated, exitCode, toolCalls, dirExists, now>>
    /\ UNCHANGED localVars

\* The exit code of the script once run has settled: process.exit(1) from the
\* catch block, otherwise main returns and the process ends with code 0.
ScriptExit(r) == IF CaughtError(r) # "" THEN 1 ELSE 0

\* The rest of main, from the settling of run.
MainAfterRun ==
    /\ variant = "script"
    /\ hpc = "run"
    /\ NoInvocationRunning
    /\ \E r \in RunOutcomes :
        /\ runResult' = r
        /\ exitCode' = ScriptExit(r)
        /\ stepFailed' = (stepFailed \/ CaughtError(r) # "")
    /\ hpc' = "done"
    /\ UNCHANGED <<variant, prompt, agentCreated, responses, toolCalls, dirExists, now>>
    /\ UNCHANGED localVars

\* The framework invokes the execute function of a generate_*_video tool, which
\* calls generateVideo with the tool's style; generateVideo runs up to its first
\* await, ensureTempDir() / ensureOutputDir().
ToolExecute ==
    /\ hpc = "run"
    /\ NoInvocationRunning
    /\ toolCalls < MaxToolCalls
    /\ toolCalls' = toolCalls + 1
    /\ \E st \in VideoStyle : style' = st
    /\ pc' = "ensureTempDir"
    /\ narrationRes' = NoNarrationRes
    /\ narration' = <<>>
    /\ image' = "none"
    /\ imagePath' = NoPath
    /\ op' = NoOperation
    /\ pollCount' = 0
    /\ i' = 0
    /\ filePaths' = <<>>
    /\ attempts' = <<>>
    /\ listContent' = <<>>
    /\ finalVideoPath' = NoPath
    /\ started' = [a \in Apis |-> 0]
    /\ completed' = {}
    /\ written' = {}
    /\ error' = ""
    /\ failure' = "none"
    /\ toolResult' = Undefined
    /\ UNCHANGED handlerVars
    /\ UNCHANGED <<stepFailed, dirExists, now>>

\* ------------------------------------------------------------ generateVideo

\* generateVideo throws: the tool call rejects.
Throws(stage, msg) ==
    /\ pc' = "thrown"
    /\ error' = msg
    /\ failure' = stage
    /\ toolResult' = Undefined

\* generateVideo returns v.
Returns(v) ==
    /\ pc' = "returned"
    /\ toolResult' = v
    /\ UNCHANGED <<error, failure>>

\* generateVideo starts the call named p and awaits it.
Awaits(p) ==
    /\ pc' = p
    /\ UNCHANGED <<error, failure, toolResult>>

\* One more call of api has been started.
Started(api) == [started EXCEPT ![api] = Min(@ + 1, MaxCount)]

\* Date.now(): the clock has not gone back since the last reading.
ClockReadings == now..Min(now + 1, MaxClock)

\* The continuation after ensureTempDir(): fs.access, on failure fs.mkdir (which
\* may itself reject), then the generateContent call.
EnsureTempDir ==
    /\ pc = "ensureTempDir"
    /\ \/ /\ dirExists' = TRUE
          /\ started' = Started("generateContent")
          /\ Awaits("generateContent")
       \/ /\ ~dirExists
          /\ UNCHANGED <<dirExists, started>>
          /\ Throws("ensureTempDir", "mkdir failed")
    /\ stepFailed' = (stepFailed \/ pc' = "thrown")
    /\ UNCHANGED handlerVars
    /\ UNCHANGED <<image, toolCalls, now, style, narrationRes, narration, imagePath, op,
                   pollCount, i, filePaths, attempts, listContent,
                   finalVideoPath, completed, written>>

\* The continuation after generateContent: clean the text, throw when nothing
\* is left, otherwise call generateImages.
NarrationDone ==
    /\ pc = "generateContent"
    /\ \/ /\ Throws("generateContent", "generateContent rejected")
          /\ UNCHANGED <<narrationRes, narration, started, completed>>
       \/ \E res \in NarrationResults :
            /\ narration' = CleanNarration(res)
            /\ narrationRes' = IF CleanNarration(res) = <<>>
                               THEN res
                               ELSE NoNarrationRes
            /\ completed' = completed \cup {"generateContent"}
            /\ IF CleanNarration(res) = <<>>
               THEN /\ Throws("narration", "Failed to generate narration text")
                    /\ UNCHANGED started
               ELSE /\ started' = Started("generateImages")
                    /\ Awaits("generateImages")
    /\ stepFailed' = (stepFailed \/ pc' = "thrown")
    /\ UNCHANGED handlerVars
    /\ UNCHANGED <<image, toolCalls, dirExists, now, style, imagePath, op, pollCount, i,
                   filePaths, attempts, listContent, finalVideoPath, written>>

\* imageResp.generatedImages?.[0]?.image?.imageBytes of the results Imagen can give.
ImageResults == {"noImages", "noBytes", "bytes"}

\* A mutant of HasImageBytes: the check of the image is missing.
HasImageBytesUnchecked(img) == TRUE

\* !image?.imageBytes is false: the image is there and has bytes.
HasImageBytes(img) == img = "bytes"

\* The continuation after generateImages: throw without image bytes; the script
\* then writes the image file, the server calls generateVideos directly.
ImageDone ==
    /\ pc = "generateImages"
    /\ \/ /\ Throws("generateImages", "generateImages rejected")
          /\ UNCHANGED <<image, imagePath, now, started, completed>>
       \/ \E img \in ImageResults :
            /\ image' = img
            /\ completed' = completed \cup {"generateImages"}
            /\ IF ~HasImageBytes(img)
               THEN /\ Throws("image", "Failed to generate image")
                    /\ UNCHANGED <<imagePath, now, started>>
               ELSE IF variant = "script"
               THEN /\ \E t \in ClockReadings :
                         /\ now' = t
                         /\ imagePath' = ImagePathOf(style, t)
                    /\ Awaits("writeImage")
                    /\ UNCHANGED started
               ELSE /\ started' = Started("generateVideos")
                    /\ Awaits("generateVideos")
                    /\ UNCHANGED <<imagePath, now>>
    /\ stepFailed' = (stepFailed \/ pc' = "thrown")
    /\ UNCHANGED handlerVars
    /\ UNCHANGED <<toolCalls, dirExists, style, narrationRes, narration, op,
                   pollCount, i, filePaths, attempts, listContent,
                   finalVideoPath, written>>

\* Script only: the continuation after fs.writeFile(imagePath, imageBuffer).
ImageWritten ==
    /\ pc = "writeImage"
    /\ \/ /\ Throws("writeImage", "writeFile rejected")
          /\ UNCHANGED <<written, started>>
       \/ /\ written' = written \cup {imagePath}
          /\ started' = Started("generateVideos")
          /\ Awaits("generateVideos")
    /\ stepFailed' = (stepFailed \/ pc' = "thrown")
    /\ UNCHANGED handlerVars
    /\ UNCHANGED <<image, toolCalls, dirExists, now, style, narrationRes, narration,
                   imagePath, op, pollCount, i, filePaths, attempts,
                   listContent, finalVideoPath, completed>>

\* A mutant of LoopExits: the condition is inverted, while (op.done).
LoopExitsWhenPending(o) == ~o.done

\* while (!op.done): the loop is left when the operation reports done.
LoopExits(o) == o.done

\* !videos || videos.length === 0
NoVideos(o) == ~o.hasVideos \/ Len(o.videos) = 0

\* A mutant of SingleClip: two clips are not worth a concatenation either.
SingleClipUpToTwo(fps) == Len(fps) <= 2

\* filePaths.length === 1
SingleClip(fps) == Len(fps) = 1

\* A mutant of NextClip: the loop does not advance.
NextClipSame(k) == k

\* i++ of the download loop.
NextClip(k) == k + 1

\* A mutant of PathsAfter: filePaths.push outside the try block.
PathsAfterAlways(fps, path, outcome) == Append(fps, path)

\* filePaths.push(filePath) runs only when downloadVideo returned.
PathsAfter(fps, path, outcome) ==
    IF outcome = "ok" THEN Append(fps, path) ELSE fps

\* createWriteStream(filePath) runs once fetch answered ok: the file exists
\* from then on, also when the body is missing or reading it fails.
CreatesFile(outcome) == outcome \in {"ok", "readFailed"}

\* The code after the download loop, given the paths downloaded.
AfterDownloads(fps) ==
    IF Len(fps) = 0
    THEN /\ Throws("download", "Failed to download any videos")
         /\ UNCHANGED <<finalVideoPath, listContent>>
    ELSE IF variant = "server"
    THEN /\ Returns(ServerResult(fps))
         /\ UNCHANGED <<finalVideoPath, listContent>>
    ELSE IF SingleClip(fps)
    THEN /\ finalVideoPath' = fps[1]
         /\ Returns(ScriptResult(fps[1], imagePath))
         /\ UNCHANGED listContent
    ELSE /\ listContent' = ListContentOf(fps)
         /\ Awaits("writeList")
         /\ UNCHANGED finalVideoPath

\* The download loop from clip number `from` on: clips without a uri are passed
\* over, the first one with a uri is given a file name and downloadVideo is
\* called; past the last clip the loop ends.
DownloadFrom(videos, from, fps, att) ==
    LET withUri == {k \in from..Len(videos) : videos[k]} IN
    IF withUri # {} /\ from <= Len(videos)
    THEN LET k == CHOOSE m \in withUri : \A n \in withUri : m <= n IN
         /\ \E t \in ClockReadings :
              /\ now' = t
              /\ attempts' = Append(att, [idx |-> k,
                                          path |-> VideoPathOf(style, t, k),
                                          outcome |-> "pending"])
         /\ i' = k
         /\ filePaths' = fps
         /\ Awaits("download")
         /\ UNCHANGED <<finalVideoPath, listContent>>
    ELSE /\ i' = Len(videos) + 1
         /\ attempts' = att
         /\ filePaths' = fps
         /\ now' = now
         /\ AfterDownloads(fps)

\* The loop condition with the operation o just received, and what follows it:
\* another round (pollCount++, the 10 s timer), or the code after the loop.
CheckOperation(o) ==
    /\ op' = o
    /\ IF ~LoopExits(o)
       THEN /\ pollCount' = Min(pollCount + 1, MaxCount)
            /\ Awaits("sleep")
            /\ UNCHANGED <<i, filePaths, attempts, now, finalVideoPath, listContent>>
       ELSE IF NoVideos(o)
       THEN /\ Throws("videos", "Video generation failed")
            /\ UNCHANGED <<pollCount, i, filePaths, attempts, now,
                           finalVideoPath, listContent>>
       ELSE /\ DownloadFrom(o.videos, 1, <<>>, <<>>)
            /\ UNCHANGED pollCount

\* The continuation after generateVideos.
VideosStarted ==
    /\ pc = "generateVideos"
    /\ \/ /\ Throws("generateVideos", "generateVideos rejected")
          /\ UNCHANGED <<op, pollCount, i, filePaths, attempts, now,
                         finalVideoPath, listContent, completed>>
       \/ \E o \in Operations :
            /\ completed' = completed \cup {"generateVideos"}
            /\ CheckOperation(o)
    /\ stepFailed' = (stepFailed \/ pc' = "thrown")
    /\ UNCHANGED handlerVars
    /\ UNCHANGED <<image, toolCalls, dirExists, style, narrationRes, narration,
                   imagePath, started, written>>

\* The continuation after the 10 s timer: the getVideosOperation call.
SleepDone ==
    /\ pc = "sleep"
    /\ started' = Started("getVideosOperation")
    /\ Awaits("getVideosOperation")
    /\ UNCHANGED handlerVars
    /\ UNCHANGED <<image, toolCalls, stepFailed, dirExists, now, style, narrationRes,
                   narration, imagePath, op, pollCount, i, filePaths, attempts,
                   listContent, finalVideoPath, completed, written>>

\* The continuation after getVideosOperation.
PollDone ==
    /\ pc = "getVideosOperation"
    /\ \/ /\ Throws("getVideosOperation", "getVideosOperation rejected")
          /\ UNCHANGED <<op, pollCount, i, filePaths, attempts, now,
                         finalVideoPath, listContent, completed>>
       \/ \E o \in Operations :
            /\ completed' = completed \cup {"getVideosOperation"}
            /\ CheckOperation(o)
    /\ stepFailed' = (stepFailed \/ pc' = "thrown")
    /\ UNCHANGED handlerVars
    /\ UNCHANGED <<image, toolCalls, dirExists, style, narrationRes, narration,
                   imagePath, started, written>>

\* The continuation after downloadVideo(uri, filename), returned or thrown: the
\* try/catch of the loop body, then the loop goes on.
DownloadDone ==
    /\ pc = "download"
    /\ \E outcome \in DownloadOutcomes :
         LET cur == attempts[Len(attempts)] IN
         /\ written' = IF CreatesFile(outcome)
                       THEN written \cup {cur.path}
                       ELSE written
         /\ DownloadFrom(op.videos, NextClip(i),
                         PathsAfter(filePaths, cur.path, outcome),
                         [attempts EXCEPT ![Len(attempts)].outcome = outcome])
         /\ stepFailed' = (stepFailed \/ outcome # "ok" \/ pc' = "thrown")
    /\ UNCHANGED handlerVars
    /\ UNCHANGED <<image, toolCalls, dirExists, style, narrationRes, narration,
                   imagePath, op, pollCount, started, completed>>

\* Script only: the continuation after fs.writeFile(listPath, listContent):
\* name the final file and run ffmpeg.
ListWritten ==
    /\ pc = "writeList"
    /\ \/ /\ Throws("writeList", "writeFile rejected")
          /\ UNCHANGED <<written, started, finalVideoPath, now>>
       \/ /\ written' = written \cup {ListPathOf(style)}
          /\ \E t \in ClockReadings :
               /\ now' = t
               /\ finalVideoPath' = FinalPathOf(style, t)
          /\ started' = Started("ffmpeg")
          /\ Awaits("ffmpeg")
    /\ stepFailed' = (stepFailed \/ pc' = "thrown")
    /\ UNCHANGED handlerVars
    /\ UNCHANGED <<image, toolCalls, dirExists, style, narrationRes, narration,
                   imagePath, op, pollCount, i, filePaths, attempts,
                   listContent, completed>>

\* Script only: the continuation after execAsync(`ffmpeg ...`).
FfmpegDone ==
    /\ pc = "ffmpeg"
    /\ \/ /\ Throws("ffmpeg", "Command failed: ffmpeg")
          /\ UNCHANGED <<written, completed>>
       \/ /\ written' = written \cup {finalVideoPath}
          /\ completed' = completed \cup {"ffmpeg"}
          /\ Returns(ScriptResult(finalVideoPath, imagePath))
    /\ stepFailed' = (stepFailed \/ pc' = "thrown")
    /\ UNCHANGED handlerVars
    /\ UNCHANGED <<image, toolCalls, dirExists, now, style, narrationRes, narration,
                   imagePath, op, pollCount, i, filePaths, attempts,
                   listContent, finalVideoPath, started>>

\* ----------------------------------------------------------- specification

Next ==
    \/ PostGenerateVideo
    \/ Main
    \/ ToolExecute
    \/ EnsureTempDir
    \/ NarrationDone
    \/ ImageDone
    \/ ImageWritten
    \/ VideosStarted
    \/ SleepDone
    \/ PollDone
    \/ DownloadDone
    \/ ListWritten
    \/ FfmpegDone
    \/ PostGenerateVideoAfterRun
    \/ MainAfterRun

Spec == Init /\ [][Next]_vars

\* The code's scheduling: an awaited call settles, and the event loop then runs
\* the continuation that waits for it.  Nothing obliges the framework to invoke
\* a tool or the operation to report done.
Fairness ==
    /\ WF_vars(EnsureTempDir)
    /\ WF_vars(NarrationDone)
    /\ WF_vars(ImageDone)
    /\ WF_vars(ImageWritten)
    /\ WF_vars(VideosStarted)
    /\ WF_vars(SleepDone)
    /\ WF_vars(PollDone)
    /\ WF_vars(DownloadDone)
    /\ WF_vars(ListWritten)
    /\ WF_vars(FfmpegDone)

FairSpec == Init /\ [][Next]_vars /\ Fairness

\* ------------------------------------------------------ vocabulary of claims

\* generateVideo has been invoked and has neither returned nor thrown yet.
Running == pc \notin {"idle", "returned", "thrown"}
Finished == pc \in {"returned", "thrown"}
InPollLoop == pc \in {"sleep", "getVideosOperation"}

\* The download loop has passed the last clip.
DownloadsOver == op.done /\ op.hasVideos /\ i = Len(op.videos) + 1

Range(f) == {f[k] : k \in DOMAIN f}

\* The clip numbers of the downloadVideo calls, and those that returned.
AttemptedClips == {attempts[k].idx : k \in DOMAIN attempts}
OkAttempts == SelectSeq(attempts, LAMBDA a : a.outcome = "ok")
OkPaths == [k \in 1..Len(OkAttempts) |-> OkAttempts[k].path]
FailedAttempts == {k \in DOMAIN attempts : attempts[k].outcome \in {"notOk", "readFailed"}}

\* The one reply to the prompt: the server's response, the script's exit code.
LastResponse == responses[Len(responses)]

\* ------------------------------------------------------------------- claims

\* The stages of generateVideo's external calls, in the order of the pipeline.
StageOrder == <<"generateContent", "generateImages", "generateVideos",
                "getVideosOperation", "download", "ffmpeg">>

StageStarted(s) == IF s = "download" THEN attempts # <<>> ELSE started[s] > 0

StageInFlight(s) ==
    IF s = "getVideosOperation" THEN InPollLoop ELSE pc = s

StageCompleted(s) ==
    CASE s = "download" ->
            /\ OkAttempts # <<>>
            /\ \A k \in DOMAIN attempts : attempts[k].outcome # "pending"
      [] s = "getVideosOperation" ->
            /\ op.done
            /\ started[s] > 0 => s \in completed
      [] s = "generateContent" -> s \in completed /\ narration # <<>>
      [] s = "generateImages" -> s \in completed /\ image = "bytes"
      [] OTHER -> s \in completed

\* C1: in every invocation of generateVideo the external calls happen in the
\* order narration, image, video start, polling until done, downloads, ffmpeg;
\* a stage has started only if every earlier stage has completed successfully
\* (the call returned and gave what the next stage needs) and none of them is
\* still in flight, and ffmpeg runs in the script only.
C1_CallOrder ==
    /\ \A a, b \in DOMAIN StageOrder :
         (a < b /\ StageStarted(StageOrder[b])) =>
             /\ ~StageInFlight(StageOrder[a])
             /\ StageCompleted(StageOrder[a])
    /\ started["ffmpeg"] > 0 => variant = "script"
    /\ Running /\ pc # "ensureTempDir" => started["generateContent"] > 0

\* C1's case: an invocation that polled, downloaded and ran ffmpeg to the end.
C1_Witness ==
    /\ pc = "returned"
    /\ started["getVideosOperation"] > 0
    /\ "ffmpeg" \in completed

\* C6: within one invocation generateContent, generateImages, generateVideos
\* and ffmpeg are each called at most once and each clip is downloaded at most
\* once, whether or not the call failed.
C6_NoRetry ==
    /\ \A a \in {"generateContent", "generateImages", "generateVideos", "ffmpeg"} :
         started[a] <= 1
    /\ \A j, k \in DOMAIN attempts :
         attempts[j].idx = attempts[k].idx => j = k
    /\ \A k \in DOMAIN attempts : attempts[k].idx \in DOMAIN op.videos

\* C6's case: ffmpeg failed after two downloads, and nothing was called again.
C6_Witness ==
    /\ failure = "ffmpeg"
    /\ Len(attempts) = 2
    /\ started["ffmpeg"] = 1

\* C8: a missing or empty prompt is rejected before any work starts: status 400
\* with "Prompt is required" from the server, exit code 1 from the script, and
\* no agent is created, no API called and no file written.
C8_MissingPromptRejected ==
    prompt \in {"undefined", ""} =>
        /\ ~agentCreated
        /\ runResult = NoRun
        /\ toolCalls = 0
        /\ pc = "idle"
        /\ \A a \in Apis : started[a] = 0
        /\ attempts = <<>>
        /\ written = {}
        /\ hpc \in {"start", "done"}
        /\ hpc = "done" =>
             IF variant = "server"
             THEN /\ responses = <<[status |-> 400,
                                    body |-> [type |-> "error",
                                              error |-> "Prompt is required"]]>>
                  /\ exitCode = -1
             ELSE /\ exitCode = 1
                  /\ responses = <<>>

\* C8's case: the server has answered a request whose prompt is the empty string.
C8_Witness ==
    /\ variant = "server"
    /\ prompt = ""
    /\ hpc = "done"
    /\ Len(responses) = 1

\* C10: a failed stage stops the pipeline before any later stage or side
\* effect.  A narration that is empty once asterisks are stripped and the text
\* trimmed throws before the image and video APIs are called and before any
\* file is written; an image without bytes throws before the image file is
\* written and before the video API is called; a finished operation without
\* videos throws "Video generation failed" before any download.
C10_FailedStageStops ==
    /\ "generateContent" \in completed =>
         (narration = <<>> <=> failure = "narration")
    /\ failure = "narration" =>
         /\ error = "Failed to generate narration text"
         /\ \A k \in DOMAIN narrationRes.text : narrationRes.text[k] \in {"*", " "}
         /\ started["generateImages"] = 0
         /\ started["generateVideos"] = 0
         /\ written = {}
    /\ started["generateImages"] > 0 =>
         /\ narration # <<>>
         /\ \A k \in DOMAIN narration : narration[k] # "*"
         /\ narration[1] # " " /\ narration[Len(narration)] # " "
    /\ image \in {"noImages", "noBytes"} <=> failure = "image"
    /\ failure = "image" =>
         /\ error = "Failed to generate image"
         /\ imagePath = NoPath
         /\ written = {}
         /\ started["generateVideos"] = 0
    /\ started["generateVideos"] > 0 => image = "bytes"
    /\ (op.done /\ (~op.hasVideos \/ op.videos = <<>>)) <=> failure = "videos"
    /\ failure = "videos" =>
         /\ error = "Video generation failed"
         /\ attempts = <<>>
         /\ \A f \in written : f.kind = "image"

\* C10's case: a narration of asterisks and blanks only was rejected.
C10_Witness ==
    /\ failure = "narration"
    /\ narrationRes.defined
    /\ "*" \in Range(narrationRes.text)
    /\ " " \in Range(narrationRes.text)

\* C2 as stated: in the script, whenever the video API returned more than one
\* clip and generateVideo returns, ffmpeg has stitched the clips and videoPath
\* is the stitched file; ffmpeg is not invoked when one clip was returned.
C2_Original ==
    variant = "script" =>
        /\ (pc = "returned" /\ Len(op.videos) > 1) =>
             /\ "ffmpeg" \in completed
             /\ toolResult.videoPath.kind = "final"
        /\ Len(op.videos) = 1 => started["ffmpeg"] = 0

\* C2, amended: in the script, whenever more than one clip was downloaded
\* successfully and generateVideo returns, ffmpeg has stitched the downloaded
\* clips and videoPath is the stitched file; ffmpeg is invoked only with two or
\* more downloaded clips, so never when only one clip was returned.
C2_StitchesDownloadedClips ==
    variant = "script" =>
        /\ (pc = "returned" /\ Len(OkAttempts) > 1) =>
             /\ "ffmpeg" \in completed
             /\ toolResult.videoPath.kind = "final"
             /\ toolResult.videoPath = finalVideoPath
             /\ finalVideoPath \in written
        /\ started["ffmpeg"] > 0 =>
             /\ Len(OkAttempts) > 1
             /\ Len(op.videos) > 1
             /\ \A k \in DOMAIN attempts : attempts[k].outcome # "pending"

\* C2's case: two clips were downloaded and the stitched file was returned.
C2_Witness ==
    /\ variant = "script"
    /\ pc = "returned"
    /\ Len(OkAttempts) = 2
    /\ toolResult.videoPath.kind = "final"

\* C3 as stated: once the download loop is over, every clip after a failed
\* download has been attempted; the invocation fails with "Failed to download
\* any videos" only if no clip was downloaded, and otherwise it succeeds with
\* exactly the clips whose download succeeded.
C3_Original ==
    DownloadsOver =>
        /\ \A j \in FailedAttempts :
             \A k \in (attempts[j].idx + 1)..Len(op.videos) : k \in AttemptedClips
        /\ error = "Failed to download any videos" => OkAttempts = <<>>
        /\ (Finished /\ OkAttempts # <<>>) =>
             /\ pc = "returned"
             /\ filePaths = OkPaths

\* C3, amended: a clip whose download throws is skipped and every remaining
\* clip that has a uri is still attempted, in index order, clips without a uri
\* being passed over.  The invocation throws "Failed to download any videos"
\* exactly when the loop ends with no clip downloaded; otherwise the download
\* stage ends with exactly the clips whose download succeeded: the server
\* returns them, the script returns the only one or goes on to concatenate
\* them, where writing the list or ffmpeg may still fail.
C3_SkipsFailedDownloads ==
    /\ \A j, k \in DOMAIN attempts : j < k => attempts[j].idx < attempts[k].idx
    /\ \A k \in AttemptedClips : k \in DOMAIN op.videos /\ op.videos[k]
    /\ pc \in {"download", "writeList", "ffmpeg"} \/ DownloadsOver =>
         filePaths = OkPaths
    /\ pc = "download" =>
         /\ attempts[Len(attempts)].outcome = "pending"
         /\ \A k \in 1..attempts[Len(attempts)].idx :
              op.videos[k] => k \in AttemptedClips
    /\ DownloadsOver =>
         /\ AttemptedClips = {k \in DOMAIN op.videos : op.videos[k]}
         /\ \A k \in DOMAIN attempts : attempts[k].outcome # "pending"
         /\ OkAttempts = <<>> <=> failure = "download"
         /\ failure = "download" =>
              pc = "thrown" /\ error = "Failed to download any videos"
         /\ OkAttempts # <<>> =>
              IF variant = "server"
              THEN pc = "returned" /\ toolResult = ServerResult(OkPaths)
              ELSE \/ pc = "returned" /\ toolResult.imagePath = imagePath
                   \/ pc \in {"writeList", "ffmpeg"}
                   \/ pc = "thrown" /\ failure \in {"writeList", "ffmpeg"}
    /\ error = "Failed to download any videos" => DownloadsOver

\* C3's case: the first clip failed, the second was still downloaded, and the
\* invocation returned the second alone.
C3_Witness ==
    /\ pc = "returned"
    /\ Len(attempts) = 2
    /\ attempts[1].outcome = "readFailed"
    /\ attempts[2].outcome = "ok"
    /\ filePaths = <<attempts[2].path>>

\* C9: in the script, when generateVideo returns with exactly one clip
\* downloaded, videoPath is that clip's path, no concat list was written and
\* ffmpeg was not invoked; with two or more, the concat list written before
\* ffmpeg ran holds exactly the downloaded clip paths, one line each, in the
\* index order of the video API, and videoPath is the new concatenated file,
\* different from every clip path.
C9_ScriptResult ==
    variant = "script" =>
        /\ started["ffmpeg"] > 0 =>
             /\ ListPathOf(style) \in written
             /\ Len(listContent) = Len(OkAttempts)
             /\ \A k \in DOMAIN listContent :
                  /\ listContent[k] = [directive |-> "file", path |-> OkAttempts[k].path]
                  /\ \A j \in DOMAIN listContent :
                       j < k => listContent[j].path.idx < listContent[k].path.idx
        /\ pc = "returned" =>
             /\ Len(OkAttempts) >= 1
             /\ toolResult.imagePath = imagePath
             /\ imagePath \in written
             /\ Len(OkAttempts) = 1 =>
                  /\ toolResult.videoPath = OkAttempts[1].path
                  /\ toolResult.videoPath \in written
                  /\ \A f \in written : f.kind \in {"image", "video"}
                  /\ listContent = <<>>
                  /\ started["ffmpeg"] = 0
             /\ Len(OkAttempts) >= 2 =>
                  /\ started["ffmpeg"] = 1
                  /\ toolResult.videoPath \in written
                  /\ toolResult.videoPath.kind = "final"
                  /\ \A k \in DOMAIN attempts :
                       toolResult.videoPath # attempts[k].path

\* C9's case: a two-line concat list, clip 1 before clip 2, and a result.
C9_Witness ==
    /\ variant = "script"
    /\ pc = "returned"
    /\ Len(listContent) = 2
    /\ listContent[1].path.idx = 1
    /\ listContent[2].path.idx = 2

\* C4 as stated: the poll loop is left only in a state where the operation
\* reports done, so an invocation whose operation has not reported done is
\* still in the loop: it has not reached the downloads, returned or thrown.
C4_Original ==
    ("generateVideos" \in completed /\ ~op.done) => InPollLoop

\* The poll loop, in every state: without a done operation the invocation is in
\* the loop or has thrown because getVideosOperation rejected; the loop is
\* entered only without one; every round calls getVideosOperation once.
C4_LoopSafety ==
    /\ ("generateVideos" \in completed /\ ~op.done) =>
         \/ InPollLoop
         \/ pc = "thrown" /\ failure = "getVideosOperation"
    /\ InPollLoop => ~op.done /\ "generateVideos" \in completed
    /\ (attempts # <<>> \/ pc = "returned") => op.done
    /\ pc = "sleep" =>
         \/ started["getVideosOperation"] + 1 = pollCount
         \/ started["getVideosOperation"] = MaxCount /\ pollCount = MaxCount
    /\ (Running \/ Finished) /\ pc # "sleep" =>
         started["getVideosOperation"] = pollCount

\* C4, amended: the poll loop has no timeout or cancellation.  It is left
\* normally only when the operation reports done, and otherwise only by
\* getVideosOperation rejecting, which makes generateVideo throw; it rechecks
\* the operation once per round; while the operation has not reported done the
\* invocation neither reaches the downloads nor returns.  An invocation always
\* gets to the loop or ends before it, and once the operation has reported
\* done, generateVideo eventually returns or throws.
C4_PollLoop ==
    /\ []C4_LoopSafety
    /\ (Running ~> (InPollLoop \/ op.done \/ Finished))
    /\ ((Running /\ op.done) ~> Finished)

\* C4's case: the operation was rechecked twice before it reported done, and
\* generateVideo returned.
C4_Witness ==
    /\ pc = "returned"
    /\ pollCount = 2
    /\ started["getVideosOperation"] = 2
    /\ op.done

\* The handling of the prompt has ended with the failure reply: status 500 and
\* an error message from the server, exit code 1 from the script.
FailureReply ==
    IF variant = "server"
    THEN /\ Len(responses) = 1
         /\ LastResponse.status = 500
         /\ LastResponse.body.type = "error"
         /\ LastResponse.body.error # ""
    ELSE exitCode = 1

\* C5 as stated: whenever a step of handling the prompt has failed, the
\* handling ends with the failure reply.
C5_Original ==
    (hpc = "done" /\ stepFailed) => FailureReply

\* C5, amended: every failure that reaches the handler, run(TriageAgent,
\* prompt) rejecting or the agent's output being empty, ends the request with
\* status 500 and an error message, or the script with exit code 1, and every
\* other outcome of run ends it with status 200, or exit code 0.  Inside
\* generateVideo a failed narration, image, video start, poll, list write or
\* ffmpeg run, and the failure of every download, make generateVideo throw to
\* the framework that invoked it, so it returns only when all of these
\* succeeded; one clip failing to download beside one that succeeds is skipped
\* and is no failure of the invocation.  Whether a thrown tool call makes run
\* reject is the framework's decision.
C5_FailuresBubble ==
    /\ (hpc = "done" /\ agentCreated) =>
         /\ runResult.kind \in {"throw", "output"}
         /\ (runResult.kind = "throw"
             \/ runResult.output.type = "undefined"
             \/ (runResult.output.type = "text" /\ runResult.output.text = ""))
            => FailureReply
         /\ FailureReply =>
              \/ runResult.kind = "throw"
              \/ runResult.output \in {Undefined, TextOutput("")}
         /\ variant = "server" => Len(responses) = 1
         /\ variant = "server" /\ runResult.kind = "throw" =>
              LastResponse.body.error = runResult.message
         /\ variant = "script" => exitCode \in {0, 1}
    /\ pc = "thrown" <=> failure # "none"
    /\ pc = "thrown" => error # "" /\ toolResult = Undefined
    /\ pc = "returned" =>
         /\ {"generateContent", "generateImages", "generateVideos"} \subseteq completed
         /\ narration # <<>>
         /\ image = "bytes"
         /\ op.done /\ op.hasVideos
         /\ OkAttempts # <<>>
         /\ variant = "script" =>
              /\ imagePath \in written
              /\ Len(OkAttempts) > 1 =>
                   ListPathOf(style) \in written /\ "ffmpeg" \in completed

\* C5's case: generateVideo threw, run rejected with its error, and the server
\* answered 500 with that message.
C5_Witness ==
    /\ variant = "server"
    /\ hpc = "done"
    /\ pc = "thrown"
    /\ failure = "videos"
    /\ runResult.kind = "throw"
    /\ LastResponse = [status |-> 500, body |-> [type |-> "error", error |-> error]]

\* C7: every POST to /api/generate-video receives exactly one response; a
\* success response carries a non-empty list of file paths of clips that were
\* downloaded, and every other response is an object with an error field.
C7_ResponseIsPathsOrError ==
    variant = "server" =>
        /\ Len(responses) <= 1
        /\ hpc = "done" => Len(responses) = 1
        /\ \A k \in DOMAIN responses :
             IF responses[k].status = 200
             THEN /\ responses[k].body.type = "filePaths"
                  /\ responses[k].body.filePaths # <<>>
                  /\ Range(responses[k].body.filePaths) \subseteq written
             ELSE /\ responses[k].body.type = "error"
                  /\ responses[k].body.error # ""

====
